---- MODULE Spec2Model ----
(***************************************************************************)
(* Resume RAG chatbot: the RAGEngine of rag_engine.py (index build, chat,  *)
(* ranking, summary) and the Streamlit session handlers of app.py that     *)
(* drive it.  Every handler runs to completion before the next one starts  *)
(* (Streamlit reruns the script per interaction), so each is one action.   *)
(***************************************************************************)
EXTENDS Integers, Sequences, FiniteSets, TLC

VARIABLES
    vector_store,   \* RAGEngine.vector_store: None or the indexed chunk list
    messages,       \* st.session_state.messages
    processed,      \* st.session_state.processed
    indexed_files,  \* st.session_state.indexed_files
    tmpdir,         \* number of NamedTemporaryFile files present on disk
    op,             \* the operation of the current script run ("idle": none)
    arg,            \* its input
    ret,            \* what it returned or raised
    calls,          \* the embedding / generative-model calls it issued, in order
    llm_response    \* ranking: the model response in flight (None when none)

vars == <<vector_store, messages, processed, indexed_files, tmpdir,
          op, arg, ret, calls, llm_response>>

\* Python's None and a present value, as a sequence of length 0 or 1.
None == <<>>
Some(x) == <<x>>

(***************************************************************************)
(* Bounds of the model.                                                    *)
(***************************************************************************)
MaxBatch == 2      \* payloads per upload batch
MaxMsgs == 3       \* session messages kept before the chat stops growing
MaxTmp == 1        \* leaked temporary files counted
MaxSegs == 4       \* segments a ranking response is assembled from

(***************************************************************************)
(* Program constants.                                                      *)
(***************************************************************************)
chunk_size == 1000
chunk_overlap == 100
k_chat == 5
k_rank == 20
k_summary == 15

NotReadyChat == "Please upload some resumes first."
NotReadySummary == "No resumes indexed."

(***************************************************************************)
(* Small helpers.                                                          *)
(***************************************************************************)
Range(s) == {s[i] : i \in 1..Len(s)}

Min(a, b) == IF a <= b THEN a ELSE b

SeqsUpTo(S, n) == UNION {[1..m -> S] : m \in 0..n}

(***************************************************************************)
(* Uploaded payloads: a display name and a body.  A body is the page texts *)
(* PyPDFLoader yields for it (by length), or is not a readable PDF.        *)
(***************************************************************************)
Names == {"A.pdf", "B.pdf"}
Bodies == {"resume", "corrupt"}
Payloads == [name : Names, body : Bodies]

Pages(body) ==
    IF body = "resume" THEN <<500, 1500>> ELSE <<>>

Batches == SeqsUpTo(Payloads, MaxBatch) \ {<<>>}

(***************************************************************************)
(* RAGEngine.process_resumes.                                              *)
(***************************************************************************)
\* loader.load() on a readable payload: one document per page, its source
\* metadata overwritten with the upload's display name.
LoadDocuments(uploaded_file) ==
    [p \in 1..Len(Pages(uploaded_file.body)) |->
        [source |-> uploaded_file.name, page |-> p - 1,
         len |-> Pages(uploaded_file.body)[p]]]

\* The for loop over uploaded_files.  wfail is the position of the payload
\* whose tmp_file.write fails (0: none); a body that is no PDF makes
\* loader.load() raise.  The write sits inside the with block, before the
\* try, so only a loader failure reaches the finally that removes tmp_path.
RECURSIVE ExtractLoop(_, _, _, _)
ExtractLoop(uploaded_files, i, all_documents, wfail) ==
    IF i > Len(uploaded_files)
    THEN [raised |-> FALSE, err |-> "", docs |-> all_documents,
          done |-> i - 1, leaked |-> 0]
    ELSE IF wfail = i
    THEN [raised |-> TRUE, err |-> "WriteError", docs |-> all_documents,
          done |-> i - 1, leaked |-> 1]
    ELSE IF uploaded_files[i].body = "corrupt"
    THEN [raised |-> TRUE, err |-> "ExtractionError", docs |-> all_documents,
          done |-> i - 1, leaked |-> 0]
    ELSE ExtractLoop(uploaded_files, i + 1,
                     all_documents \o LoadDocuments(uploaded_files[i]), wfail)

\* Number of windows of chunk_size with chunk_overlap over a text of n chars.
NumChunks(n) ==
    IF n = 0 THEN 0
    ELSE IF n <= chunk_size THEN 1
    ELSE 1 + ((n - chunk_size) + (chunk_size - chunk_overlap) - 1)
                 \div (chunk_size - chunk_overlap)

ChunksOf(doc) ==
    [c \in 1..NumChunks(doc.len) |->
        [source |-> doc.source, page |-> doc.page, part |-> c]]

\* text_splitter.split_documents: documents in order, metadata kept.
RECURSIVE split_documents(_)
split_documents(documents) ==
    IF documents = <<>> THEN <<>>
    ELSE ChunksOf(Head(documents)) \o split_documents(Tail(documents))

\* FAISS.from_documents(chunks, embeddings) and the assignment of its result:
\* the value vector_store has afterwards.  The library embeds every chunk and
\* raises on an embedding failure or an empty chunk list, before anything is
\* assigned.
BuildIndexPartial(prior, chunks, embed_ok) ==
    IF chunks = <<>> THEN [raised |-> TRUE, vs |-> prior]
    ELSE IF ~embed_ok
    THEN [raised |-> TRUE, vs |-> Some(SubSeq(chunks, 1, Len(chunks) - 1))]
    ELSE [raised |-> FALSE, vs |-> Some(chunks)]

BuildIndexMerge(prior, chunks, embed_ok) ==
    IF chunks = <<>> \/ ~embed_ok THEN [raised |-> TRUE, vs |-> prior]
    ELSE [raised |-> FALSE,
          vs |-> IF prior = None THEN Some(chunks) ELSE Some(prior[1] \o chunks)]

BuildIndex(prior, chunks, embed_ok) ==
    IF chunks = <<>> \/ ~embed_ok THEN [raised |-> TRUE, vs |-> prior]
    ELSE [raised |-> FALSE, vs |-> Some(chunks)]

process_resumes(uploaded_files, wfail, embed_ok) ==
    LET ex == ExtractLoop(uploaded_files, 1, <<>>, wfail) IN
    IF ex.raised
    THEN [raised |-> TRUE, err |-> ex.err, vs |-> vector_store,
          leaked |-> ex.leaked, extracted |-> ex.done, calls |-> <<>>]
    ELSE LET chunks == split_documents(ex.docs)
             b == BuildIndex(vector_store, chunks, embed_ok) IN
         [raised |-> b.raised,
          err |-> IF b.raised THEN "IndexBuildError" ELSE "",
          vs |-> b.vs, leaked |-> 0, extracted |-> ex.done,
          calls |-> <<[fn |-> "embed_documents", n |-> Len(chunks)]>>]

(***************************************************************************)
(* One interaction is one run of the script: a handler runs to completion  *)
(* and its locals (input, result, the calls it made) live until the run    *)
(* ends; the next interaction starts from the session state alone.         *)
(***************************************************************************)
Idle == op = "idle"

NoRun == [kind |-> "ok", value |-> ""]

EndRun ==
    /\ ~Idle
    /\ op' = "idle"
    /\ arg' = <<>>
    /\ ret' = NoRun
    /\ calls' = <<>>
    /\ UNCHANGED <<vector_store, messages, processed, indexed_files, tmpdir,
                   llm_response>>

(***************************************************************************)
(* app.py: the Index Files handler.                                        *)
(***************************************************************************)
IndexFiles ==
    /\ Idle
    /\ \E uploaded_files \in Batches, wfail \in 0..MaxBatch, embed_ok \in BOOLEAN :
        /\ wfail <= Len(uploaded_files)
        /\ wfail # 0 => embed_ok
        /\ LET r == process_resumes(uploaded_files, wfail, embed_ok) IN
            /\ tmpdir + r.leaked <= MaxTmp
            /\ vector_store' = r.vs
            /\ tmpdir' = tmpdir + r.leaked
            /\ processed' = IF r.raised THEN processed ELSE TRUE
            /\ indexed_files' =
                  IF r.raised THEN indexed_files
                  ELSE [i \in 1..Len(uploaded_files) |-> uploaded_files[i].name]
            /\ op' = "process_resumes"
            /\ arg' = uploaded_files
            /\ ret' = [kind |-> IF r.raised THEN "raise" ELSE "ok",
                       err |-> r.err, extracted |-> r.extracted]
            /\ calls' = r.calls
        /\ UNCHANGED <<messages, llm_response>>

(***************************************************************************)
(* Model output as text.  A ranking response is a sequence of tokens: the  *)
(* structural characters [ ] { } , one whitespace run " ", a member token  *)
(* that stands for the well-formed key/value text of one candidate record  *)
(* ("name": ..., "score": n, "reasoning_summary": ...), and word tokens    *)
(* for any other run of characters.                                        *)
(***************************************************************************)
MemberScore == ("s85" :> 85) @@ ("s70" :> 70)
Members == DOMAIN MemberScore
Words == {"w", NotReadyChat}
Tokens == {"[", "]", "{", "}", ",", " "} \cup Members \cup Words

IsWS(t) == t = " "

At(s, i) == IF i \in 1..Len(s) THEN s[i] ELSE "EOF"

\* first position >= i that holds no whitespace (Len(s) + 1 when none)
RECURSIVE SkipWS(_, _)
SkipWS(s, i) == IF i <= Len(s) /\ IsWS(s[i]) THEN SkipWS(s, i + 1) ELSE i

\* last position <= i that holds no whitespace (0 when none)
RECURSIVE SkipWSBack(_, _)
SkipWSBack(s, i) == IF i >= 1 /\ IsWS(s[i]) THEN SkipWSBack(s, i - 1) ELSE i

\* str.strip()
strip(s) ==
    LET a == SkipWS(s, 1)
        b == SkipWSBack(s, Len(s))
    IN IF a > b THEN <<>> ELSE SubSeq(s, a, b)

(***************************************************************************)
(* re.search(r'\[\s*{.*}\s*\]', response, re.DOTALL): the leftmost start   *)
(* of "[", whitespace, "{" that some later "}", whitespace, "]" closes;    *)
(* the greedy .* extends the match to the last such close.                 *)
(***************************************************************************)
OpensAt(s, i) == At(s, i) = "[" /\ At(s, SkipWS(s, i + 1)) = "{"

ClosesAt(s, m) == At(s, m) = "]" /\ At(s, SkipWSBack(s, m - 1)) = "}"

MatchEnds(s, i) ==
    {m \in 1..Len(s) : ClosesAt(s, m) /\ SkipWSBack(s, m - 1) > SkipWS(s, i + 1)}

MatchStarts(s) == {i \in 1..Len(s) : OpensAt(s, i) /\ MatchEnds(s, i) # {}}

SetMin(S) == CHOOSE x \in S : \A y \in S : x <= y
SetMax(S) == CHOOSE x \in S : \A y \in S : x >= y

re_search(s) ==
    IF MatchStarts(s) = {} THEN None
    ELSE LET i == SetMin(MatchStarts(s))
         IN Some([start |-> i, end |-> SetMax(MatchEnds(s, i))])

(***************************************************************************)
(* json.loads on a token sequence: a recursive-descent parse of            *)
(*   value  ::= object | array                                             *)
(*   object ::= { } | { member (, member)* }                               *)
(*   array  ::= [ ] | [ value (, value)* ]                                 *)
(* with whitespace allowed between tokens.  A parsed object carries the    *)
(* score of its last member (-1 when it has none), a parsed array its      *)
(* items.                                                                  *)
(***************************************************************************)
Fail == [ok |-> FALSE, pos |-> 0, val |-> <<>>]
Obj(score) == [t |-> "obj", score |-> score, items |-> <<>>]
Arr(items) == [t |-> "arr", score |-> -1, items |-> items]

RECURSIVE ParseMembers(_, _)
ParseMembers(s, i) ==
    IF At(s, i) \notin Members THEN Fail
    ELSE LET k == SkipWS(s, i + 1) IN
         IF At(s, k) = "}"
         THEN [ok |-> TRUE, pos |-> k + 1, val |-> Obj(MemberScore[s[i]])]
         ELSE IF At(s, k) = "," THEN ParseMembers(s, SkipWS(s, k + 1))
         ELSE Fail

RECURSIVE ParseValue(_, _)
RECURSIVE ParseElems(_, _, _)
ParseElems(s, i, acc) ==
    LET v == ParseValue(s, i) IN
    IF ~v.ok THEN Fail
    ELSE LET k == SkipWS(s, v.pos) IN
         IF At(s, k) = "]"
         THEN [ok |-> TRUE, pos |-> k + 1, val |-> Arr(Append(acc, v.val))]
         ELSE IF At(s, k) = ","
         THEN ParseElems(s, SkipWS(s, k + 1), Append(acc, v.val))
         ELSE Fail

ParseValue(s, i) ==
    IF At(s, i) = "{"
    THEN LET j == SkipWS(s, i + 1) IN
         IF At(s, j) = "}" THEN [ok |-> TRUE, pos |-> j + 1, val |-> Obj(-1)]
         ELSE ParseMembers(s, j)
    ELSE IF At(s, i) = "["
    THEN LET j == SkipWS(s, i + 1) IN
         IF At(s, j) = "]" THEN [ok |-> TRUE, pos |-> j + 1, val |-> Arr(<<>>)]
         ELSE ParseElems(s, j, <<>>)
    ELSE Fail

\* json.loads(text): the parsed value, or a raise when text is not one JSON
\* value followed by nothing but whitespace.
json_loads(text) ==
    LET v == ParseValue(text, SkipWS(text, 1)) IN
    IF v.ok /\ SkipWS(text, v.pos) = Len(text) + 1
    THEN [raised |-> FALSE, val |-> v.val]
    ELSE [raised |-> TRUE, val |-> Arr(<<>>)]

\* Lines 139-150 of rank_candidates: the split of the response into the
\* narrative and the structured list.  json.loads runs first; when it raises
\* neither assignment has happened and the bare except swallows the error.
ExtractStructuredEager(response) ==
    LET json_match == re_search(response) IN
    IF json_match = None
    THEN [markdown_part |-> response, structured_data |-> <<>>]
    ELSE LET m == json_match[1]
             loaded == json_loads(SubSeq(response, m.start, m.end))
         IN IF loaded.raised
            THEN [markdown_part |-> strip(SubSeq(response, 1, m.start - 1)),
                  structured_data |-> <<>>]
            ELSE [markdown_part |-> strip(SubSeq(response, 1, m.start - 1)),
                  structured_data |-> loaded.val.items]

ExtractStructured(response) ==
    LET json_match == re_search(response) IN
    IF json_match = None
    THEN [markdown_part |-> response, structured_data |-> <<>>]
    ELSE LET m == json_match[1]
             loaded == json_loads(SubSeq(response, m.start, m.end))
         IN IF loaded.raised
            THEN [markdown_part |-> response, structured_data |-> <<>>]
            ELSE [markdown_part |-> strip(SubSeq(response, 1, m.start - 1)),
                  structured_data |-> loaded.val.items]

(***************************************************************************)
(* Upstream calls.  Each embedding or generative-model call an operation   *)
(* issues is logged with the text it was given; a retrieval also logs its  *)
(* k and the chunks the index returned.                                    *)
(***************************************************************************)
Call(fn, text, k, docs) == [fn |-> fn, text |-> text, k |-> k, docs |-> docs]

Raise(err, log) == [kind |-> "raise", value |-> err, calls |-> log]
Return(value, log) == [kind |-> "ok", value |-> value, calls |-> log]

\* The index positions a similarity search with parameter k may return: the
\* k nearest chunks, all of them when the index holds fewer.
TopK(store, k) ==
    {I \in SUBSET (1..Len(store[1])) : Cardinality(I) = Min(k, Len(store[1]))}

RECURSIVE Pick(_, _, _)
Pick(chunks, I, i) ==
    IF i > Len(chunks) THEN <<>>
    ELSE (IF i \in I THEN <<chunks[i]>> ELSE <<>>) \o Pick(chunks, I, i + 1)

\* vector_store.as_retriever(search_kwargs={"k": k}).invoke(text)
retriever_invoke(text, k, sel) ==
    Call("embed_query", text, k, Pick(vector_store[1], sel, 1))

Questions == {"q1"}
Standalone == "standalone question"
Answers == {"answer", NotReadyChat}
Summaries == {"summary", NotReadySummary}
SummaryQuery == "Summarize all candidates and their key skills."

\* create_history_aware_retriever(llm, retriever, prompt): with an empty
\* chat_history the input goes straight to the retriever; otherwise the
\* model rewrites it first and the retriever gets the rewritten text.
history_aware_retriever_always(input, chat_history, fail, rewritten, sel) ==
    LET rw == <<Call("llm_rewrite", input, 0, <<>>)>> IN
    IF fail = "rewrite" THEN [raised |-> TRUE, calls |-> rw]
    ELSE IF fail = "retrieve"
    THEN [raised |-> TRUE, calls |-> rw \o <<Call("embed_query", rewritten, k_chat, <<>>)>>]
    ELSE [raised |-> FALSE, calls |-> rw \o <<retriever_invoke(rewritten, k_chat, sel)>>]

history_aware_retriever(input, chat_history, fail, rewritten, sel) ==
    LET rewrite == chat_history # <<>>
        rw == IF rewrite THEN <<Call("llm_rewrite", input, 0, <<>>)>> ELSE <<>>
        q == IF rewrite THEN rewritten ELSE input
    IN IF rewrite /\ fail = "rewrite" THEN [raised |-> TRUE, calls |-> rw]
       ELSE IF fail = "retrieve"
       THEN [raised |-> TRUE, calls |-> rw \o <<Call("embed_query", q, k_chat, <<>>)>>]
       ELSE [raised |-> FALSE, calls |-> rw \o <<retriever_invoke(q, k_chat, sel)>>]

get_response_late_guard(query, chat_history, fail, rewritten, sel, answer) ==
    LET history == IF chat_history = None THEN <<>> ELSE chat_history[1]
        rw == <<Call("llm_rewrite", query, 0, <<>>)>>
    IN IF vector_store = None
       THEN Return(NotReadyChat, IF history # <<>> THEN rw ELSE <<>>)
       ELSE LET r == history_aware_retriever(query, history, fail, rewritten, sel)
                ans == <<Call("llm_answer", query, 0, <<>>)>>
            IN IF r.raised THEN Raise("UpstreamError", r.calls)
               ELSE IF fail = "answer" THEN Raise("UpstreamError", r.calls \o ans)
               ELSE Return(answer, r.calls \o ans)

\* RAGEngine.get_response
get_response(query, chat_history, fail, rewritten, sel, answer) ==
    IF vector_store = None THEN Return(NotReadyChat, <<>>)
    ELSE LET history == IF chat_history = None THEN <<>> ELSE chat_history[1]
             r == history_aware_retriever(query, history, fail, rewritten, sel)
             ans == <<Call("llm_answer", query, 0, <<>>)>>
         IN IF r.raised THEN Raise("UpstreamError", r.calls)
            ELSE IF fail = "answer" THEN Raise("UpstreamError", r.calls \o ans)
            ELSE Return(answer, r.calls \o ans)

\* RAGEngine.rank_candidates
rank_candidates(job_description, fail, sel, response) ==
    IF vector_store = None
    THEN Return([markdown_part |-> <<NotReadyChat>>, structured_data |-> <<>>], <<>>)
    ELSE LET rc == <<Call("embed_query", job_description, k_rank, <<>>)>>
             docs == <<retriever_invoke(job_description, k_rank, sel)>>
             gen == <<Call("llm_rank", job_description, 0, <<>>)>>
         IN IF fail = "retrieve" THEN Raise("UpstreamError", rc)
            ELSE IF fail = "answer" THEN Raise("UpstreamError", docs \o gen)
            ELSE Return(ExtractStructured(response), docs \o gen)

\* RAGEngine.summarize_resumes
summarize_resumes(fail, sel, summary) ==
    IF vector_store = None THEN Return(NotReadySummary, <<>>)
    ELSE LET rc == <<Call("embed_query", SummaryQuery, k_summary, <<>>)>>
             docs == <<retriever_invoke(SummaryQuery, k_summary, sel)>>
             gen == <<Call("llm_summary", "", 0, <<>>)>>
         IN IF fail = "retrieve" THEN Raise("UpstreamError", rc)
            ELSE IF fail = "answer" THEN Raise("UpstreamError", docs \o gen)
            ELSE Return(summary, docs \o gen)

(***************************************************************************)
(* Inputs the callers supply and outputs the model may give.               *)
(***************************************************************************)
RECURSIVE RenderElems(_)
RenderElems(ms) ==
    IF ms = <<>> THEN <<>>
    ELSE <<"{", Head(ms), "}">> \o
         (IF Tail(ms) = <<>> THEN <<>> ELSE <<",">> \o RenderElems(Tail(ms)))

\* the text of a JSON array holding one object per member
RenderArray(ms) == <<"[">> \o RenderElems(ms) \o <<"]">>

Fragment == <<"[", "{", "w", "}", "]">>

HistoryArgs ==
    {None, Some(<<>>), Some(<< <<"user", "q1">>, <<"assistant", "answer">> >>)}

JobDescriptions == {"jd"}

RankResponses ==
    { <<"w">>, <<NotReadyChat>>, <<"w", " ">> \o RenderArray(<<"s85">>), Fragment }

Segments ==
    {<<t>> : t \in {"[", "]", "{", "}", ",", " ", "s85", "w"}}
        \cup {RenderArray(<<"s85">>), RenderArray(<<"s85", "s70">>), Fragment}

RECURSIVE Concat(_)
Concat(ss) == IF ss = <<>> THEN <<>> ELSE Head(ss) \o Concat(Tail(ss))

Responses == {Concat(ss) : ss \in SeqsUpTo(Segments, MaxSegs)}

\* What the upstream services may do during one query: which call fails (if
\* any), which chunks the index returns, what the model generates.  Choices
\* that cannot influence the run (no index; a call that is never reached)
\* are left at one value.
QueryEnvs(k, outputs) ==
    LET o1 == CHOOSE o \in outputs : TRUE
        sels == IF vector_store = None THEN {{}} ELSE TopK(vector_store, k)
        s1 == CHOOSE x \in sels : TRUE
    IN IF vector_store = None
       THEN {[fail |-> "none", sel |-> s1, out |-> o1]}
       ELSE {[fail |-> f, sel |-> s1, out |-> o1] : f \in {"rewrite", "retrieve"}}
            \cup {[fail |-> "answer", sel |-> x, out |-> o1] : x \in sels}
            \cup {[fail |-> "none", sel |-> x, out |-> o] : x \in sels, o \in outputs}

(***************************************************************************)
(* Direct calls of the engine's query operations.                          *)
(***************************************************************************)
GetResponse ==
    /\ Idle
    /\ \E query \in Questions, chat_history \in HistoryArgs, e \in QueryEnvs(k_chat, Answers) :
        LET r == get_response(query, chat_history, e.fail, Standalone, e.sel, e.out) IN
        /\ op' = "get_response"
        /\ arg' = [query |-> query, chat_history |-> chat_history]
        /\ ret' = [kind |-> r.kind, value |-> r.value]
        /\ calls' = r.calls
        /\ UNCHANGED <<vector_store, messages, processed, indexed_files, tmpdir,
                       llm_response>>

RankCandidates ==
    /\ Idle
    /\ \E job_description \in JobDescriptions, e \in QueryEnvs(k_rank, RankResponses) :
        LET response == e.out
            r == rank_candidates(job_description, e.fail, e.sel, response) IN
        /\ op' = "rank_candidates"
        /\ arg' = [job_description |-> job_description, response |-> response]
        /\ ret' = [kind |-> r.kind, value |-> r.value]
        /\ calls' = r.calls
        /\ UNCHANGED <<vector_store, messages, processed, indexed_files, tmpdir,
                       llm_response>>

SummarizeResumes ==
    /\ Idle
    /\ \E e \in QueryEnvs(k_summary, Summaries) :
        LET r == summarize_resumes(e.fail, e.sel, e.out) IN
        /\ op' = "summarize_resumes"
        /\ arg' = <<>>
        /\ ret' = [kind |-> r.kind, value |-> r.value]
        /\ calls' = r.calls
        /\ UNCHANGED <<vector_store, messages, processed, indexed_files, tmpdir,
                       llm_response>>

(***************************************************************************)
(* app.py: the remaining handlers.                                         *)
(***************************************************************************)
Message(role, content) == [role |-> role, content |-> content]

\* line 138: the history handed to get_response, built before the prompt is
\* appended to the session messages
HistoryOf(msgs) == [i \in 1..Len(msgs) |-> <<msgs[i].role, msgs[i].content>>]

\* lines 141-149.  A raise of get_response ends the script run after the user
\* message was appended and before the assistant message is.
ChatAppend(msgs, prompt, r) ==
    IF r.kind = "raise" THEN Append(msgs, Message("user", prompt))
    ELSE Append(Append(msgs, Message("user", prompt)),
                Message("assistant", r.value))

ChatInput ==
    /\ Idle
    /\ processed
    /\ Len(messages) + 2 <= MaxMsgs
    /\ \E prompt \in Questions, e \in QueryEnvs(k_chat, Answers) :
        LET history == HistoryOf(messages)
            r == get_response(prompt, Some(history), e.fail, Standalone, e.sel, e.out)
        IN /\ messages' = ChatAppend(messages, prompt, r)
           /\ op' = "chat_input"
           /\ arg' = [query |-> prompt, chat_history |-> Some(history)]
           /\ ret' = [kind |-> r.kind, value |-> r.value]
           /\ calls' = r.calls
    /\ UNCHANGED <<vector_store, processed, indexed_files, tmpdir, llm_response>>

ClearChat ==
    /\ Idle
    /\ messages' = <<>>
    /\ op' = "clear_chat"
    /\ arg' = <<>>
    /\ ret' = NoRun
    /\ calls' = <<>>
    /\ UNCHANGED <<vector_store, processed, indexed_files, tmpdir, llm_response>>

\* st.session_state.clear() and the rerun that initialises the session anew,
\* with a fresh RAGEngine
ResetApp ==
    /\ Idle
    /\ messages' = <<>>
    /\ processed' = FALSE
    /\ indexed_files' = <<>>
    /\ vector_store' = None
    /\ op' = "reset_app"
    /\ arg' = <<>>
    /\ ret' = NoRun
    /\ calls' = <<>>
    /\ UNCHANGED <<tmpdir, llm_response>>

RankButton ==
    /\ Idle
    /\ \E jd_input \in JobDescriptions \cup {""}, e \in QueryEnvs(k_rank, RankResponses) :
        LET response == e.out
            r == IF ~processed \/ jd_input = ""
                 THEN Return("warning", <<>>)
                 ELSE rank_candidates(jd_input, e.fail, e.sel, response)
        IN /\ op' = "rank_button"
           /\ arg' = [job_description |-> jd_input, response |-> response]
           /\ ret' = [kind |-> r.kind, value |-> r.value]
           /\ calls' = r.calls
           /\ UNCHANGED <<vector_store, messages, processed, indexed_files, tmpdir,
                          llm_response>>

SummaryButton ==
    /\ Idle
    /\ processed
    /\ \E e \in QueryEnvs(k_summary, Summaries) :
        LET r == summarize_resumes(e.fail, e.sel, e.out) IN
        /\ op' = "summary_button"
        /\ arg' = <<>>
        /\ ret' = [kind |-> r.kind, value |-> r.value]
        /\ calls' = r.calls
    /\ UNCHANGED <<vector_store, messages, processed, indexed_files, tmpdir,
                   llm_response>>

(***************************************************************************)
(* The session: state after construction, and every handler.               *)
(***************************************************************************)
Init ==
    /\ vector_store = None
    /\ messages = <<>>
    /\ processed = FALSE
    /\ indexed_files = <<>>
    /\ tmpdir = 0
    /\ op = "idle"
    /\ arg = <<>>
    /\ ret = NoRun
    /\ calls = <<>>
    /\ llm_response = None

Next ==
    \/ IndexFiles
    \/ GetResponse
    \/ RankCandidates
    \/ SummarizeResumes
    \/ ChatInput
    \/ ClearChat
    \/ ResetApp
    \/ RankButton
    \/ SummaryButton
    \/ EndRun

Spec == Init /\ [][Next]_vars

(***************************************************************************)
(* Ranking as a function of the model response: an engine with a built     *)
(* index, and a response to the ranking prompt in flight.                  *)
(***************************************************************************)
RankInFlight ==
    /\ Idle
    /\ llm_response # None
    /\ \E sel \in TopK(vector_store, k_rank) :
        LET r == rank_candidates("jd", "none", sel, llm_response[1]) IN
        /\ op' = "rank_candidates"
        /\ arg' = [job_description |-> "jd", response |-> llm_response[1]]
        /\ ret' = [kind |-> r.kind, value |-> r.value]
        /\ calls' = r.calls
    /\ llm_response' = None
    /\ UNCHANGED <<vector_store, messages, processed, indexed_files, tmpdir>>

InitRank ==
    /\ vector_store = Some(split_documents(LoadDocuments([name |-> "A.pdf", body |-> "resume"])))
    /\ messages = <<>>
    /\ processed = TRUE
    /\ indexed_files = <<"A.pdf">>
    /\ tmpdir = 0
    /\ op = "idle"
    /\ arg = <<>>
    /\ ret = NoRun
    /\ calls = <<>>
    /\ llm_response \in {Some(r) : r \in Responses}

NextRank == RankInFlight

SpecRank == InitRank /\ [][NextRank]_vars

(***************************************************************************)
(* Properties.                                                             *)
(***************************************************************************)
QueryOps == {"get_response", "rank_candidates", "summarize_resumes"}

NotReadyOf(o) ==
    IF o = "rank_candidates"
    THEN [markdown_part |-> <<NotReadyChat>>, structured_data |-> <<>>]
    ELSE IF o = "summarize_resumes" THEN NotReadySummary
    ELSE NotReadyChat

\* C1: while no index has been built successfully (the session's readiness
\* flag is unset: initially, after failed builds, after a reset), every
\* query operation returns its not-ready value and issues no embedding and
\* no generative-model call.
C1_NotReadyShortCircuit ==
    (op \in QueryOps /\ ~processed) =>
        /\ ret.kind = "ok"
        /\ ret.value = NotReadyOf(op)
        /\ calls = <<>>

\* a query answered not-ready after a process_resumes call that failed while
\* writing a payload (its temporary file is still on disk)
C1_Witness ==
    /\ op \in QueryOps
    /\ ~processed
    /\ tmpdir > 0
    /\ ret.value = NotReadyOf(op)

\* C2: a payload whose extraction fails is skipped: the batch goes on, the
\* index is built from the payloads that parsed, and the caller sees no
\* extraction failure.
GoodPayloads(batch) == SelectSeq(batch, LAMBDA f : f.body # "corrupt")

RECURSIVE DocumentsOf(_)
DocumentsOf(batch) ==
    IF batch = <<>> THEN <<>>
    ELSE LoadDocuments(Head(batch)) \o DocumentsOf(Tail(batch))

C2_ExtractionFailureIsolated ==
    (/\ op = "process_resumes"
     /\ \E i \in 1..Len(arg) : arg[i].body = "corrupt"
     /\ GoodPayloads(arg) # <<>>
     /\ ret.err \notin {"WriteError", "IndexBuildError"}) =>
        /\ ret.kind = "ok"
        /\ ret.extracted = Len(arg)
        /\ vector_store = Some(split_documents(DocumentsOf(GoodPayloads(arg))))

\* C3: a process_resumes call that fails in the index build leaves
\* vector_store, the readiness flag and the indexed-file list as they were.
C3_BuildAllOrNothing ==
    [][(op' = "process_resumes" /\ ret'.err = "IndexBuildError") =>
          /\ vector_store' = vector_store
          /\ processed' = processed
          /\ indexed_files' = indexed_files]_vars

\* a failed build with the prior index still in place
C3_Witness ==
    /\ op = "process_resumes"
    /\ ret.err = "IndexBuildError"
    /\ vector_store # None
    /\ processed

\* C4: every retrieval returns at most k chunks, each carrying the display
\* name of a document of the batch indexed last.
IsRetrieval(c) == c.fn = "embed_query"

C4_RetrievalFromCurrentBatch ==
    \A i \in 1..Len(calls) :
        IsRetrieval(calls[i]) =>
            /\ Len(calls[i].docs) <= calls[i].k
            /\ \A j \in 1..Len(calls[i].docs) :
                  calls[i].docs[j].source \in Range(indexed_files)

\* a chat retrieval cut to k chunks from a larger index that holds one
\* document name only
C4_Witness ==
    /\ op \in {"get_response", "chat_input"}
    /\ vector_store # None
    /\ Len(vector_store[1]) > k_chat
    /\ Range(indexed_files) = {"B.pdf"}
    /\ \E i \in 1..Len(calls) :
          IsRetrieval(calls[i]) /\ Len(calls[i].docs) = k_chat

\* C5: no temporary file of process_resumes is left on disk.
C5_NoTempFileLeft == tmpdir = 0

\* C6: when the response holds no parsable array (the pattern does not
\* match, or the matched text is not valid JSON), rank_candidates returns
\* the whole response as the narrative with an empty structured list, and
\* does not raise.
MatchedText(response) ==
    SubSeq(response, re_search(response)[1].start, re_search(response)[1].end)

NoParsableArray(response) ==
    \/ re_search(response) = None
    \/ json_loads(MatchedText(response)).raised

C6_ParseDegradesToNarrative ==
    (op = "rank_candidates" /\ NoParsableArray(arg.response)) =>
        /\ ret.kind = "ok"
        /\ ret.value.markdown_part = arg.response
        /\ ret.value.structured_data = <<>>

\* the pattern matched and the matched text was not valid JSON
C6_Witness ==
    /\ op = "rank_candidates"
    /\ ret.kind = "ok"
    /\ re_search(arg.response) # None
    /\ json_loads(MatchedText(arg.response)).raised
    /\ ret.value.markdown_part = arg.response
    /\ ret.value.structured_data = <<>>

\* C7: a response that ends with a well-formed JSON array of objects after a
\* non-blank narrative is split into the narrative before the first
\* array-of-objects pattern and one record per array element, with the
\* scores as written; also when the narrative holds bracketed text.
MemberLists == {<<"s85">>, <<"s85", "s70">>, <<"s70", "s85">>}

RecordsOf(ms) == [i \in 1..Len(ms) |-> Obj(MemberScore[ms[i]])]

FirstPattern(response) == SetMin({i \in 1..Len(response) : OpensAt(response, i)})

C7_TrailingArraySplit ==
    (op = "rank_candidates" /\ vector_store # None /\ ret.kind = "ok") =>
        \A i \in 2..Len(arg.response), ms \in MemberLists :
            (/\ SubSeq(arg.response, i, Len(arg.response)) = RenderArray(ms)
             /\ strip(SubSeq(arg.response, 1, i - 1)) # <<>>) =>
                /\ ret.value.structured_data = RecordsOf(ms)
                /\ ret.value.markdown_part # <<>>
                /\ ret.value.markdown_part =
                      strip(SubSeq(arg.response, 1, FirstPattern(arg.response) - 1))

\* C8: with an index built, no query operation returns the value it returns
\* when no index is built.
C8_NotReadyDistinguishable ==
    (op \in QueryOps \cup {"chat_input"} /\ vector_store # None /\ ret.kind = "ok") =>
        ret.value # NotReadyOf(op)

\* C9: get_response on a built index issues no rewrite call for an empty
\* history and retrieves with the question as given; for a non-empty history
\* it issues one rewrite call, then retrieves with the rewritten question;
\* one answer call ends the run; no call is issued twice.
Fns(log) == [i \in 1..Len(log) |-> log[i].fn]

IsPrefix(a, b) == Len(a) <= Len(b) /\ a = SubSeq(b, 1, Len(a))

HistoryGiven == IF arg.chat_history = None THEN <<>> ELSE arg.chat_history[1]

C9_RewriteOnlyWithHistory ==
    (op \in {"get_response", "chat_input"} /\ vector_store # None) =>
        IF HistoryGiven = <<>>
        THEN /\ IsPrefix(Fns(calls), <<"embed_query", "llm_answer">>)
             /\ Len(calls) >= 1
             /\ calls[1].text = arg.query
             /\ ret.kind = "ok" => Len(calls) = 2
        ELSE /\ IsPrefix(Fns(calls), <<"llm_rewrite", "embed_query", "llm_answer">>)
             /\ Len(calls) >= 1
             /\ calls[1].text = arg.query
             /\ Len(calls) >= 2 => calls[2].text = Standalone
             /\ ret.kind = "ok" => Len(calls) = 3

\* a follow-up question asked through the chat: rewrite, retrieval with the
\* rewritten question, answer
C9_Witness ==
    /\ op = "chat_input"
    /\ ret.kind = "ok"
    /\ HistoryGiven # <<>>
    /\ Fns(calls) = <<"llm_rewrite", "embed_query", "llm_answer">>
    /\ calls[2].text = Standalone

\* C10: the session messages alternate user, assistant, ... and have even
\* length, and so does the history handed to get_response.
Alternates(roles) ==
    /\ Len(roles) % 2 = 0
    /\ \A i \in 1..Len(roles) :
          roles[i] = IF i % 2 = 1 THEN "user" ELSE "assistant"

C10_HistoryAlternates ==
    /\ Alternates([i \in 1..Len(messages) |-> messages[i].role])
    /\ op = "chat_input" =>
          Alternates([i \in 1..Len(HistoryGiven) |-> HistoryGiven[i][1]])
====
